---------------------------- MODULE Spec2Model ----------------------------
(*************************************************************************)
(* Model of the tts-cr-agent frontend: the auth store and its round trip *)
(* through local storage, the route guard, the axios interceptors of the *)
(* shared api client, the Copilot chat send (SSE stream with fallback)   *)
(* and the MarketIntelligence page (list paging, product detail modal).  *)
(*************************************************************************)
EXTENDS Integers, Sequences, FiniteSets, TLC

VARIABLES
    \* ---- browser / auth store / router (SpecAuth) ----
    localStorage,   \* value of the key access_token, NULL when absent
    store,          \* zustand auth store: [user, token, isAuthenticated]
    route,          \* path shown by the client-side router
    pendingHref,    \* window.location.href assigned, page load not yet done
    pc,             \* "mounted": first render done, effects pending; "ready"
    view,           \* element the App rendered for the current route
    last,           \* record of the last operation (history, for the claims)
    \* ---- Copilot page (SpecChat) ----
    messages,       \* useState<CopilotMessage[]>
    input,          \* useState("")
    loading,        \* useState(false)
    streaming,      \* useState(false)
    sources,        \* useState<string[]>
    activeConvId,   \* useState<string | null>
    send,           \* the running handleSend call: position, closure, locals
    sends,          \* number of sends started
    \* ---- MarketIntelligence page (SpecList, SpecDetail) ----
    tab, region, page, productSort, keywords, searchInput,
    miLoading,      \* useState(false) "loading" of the page
    products, productsTotal, creators, creatorsTotal,
    listReqs,       \* fetchData calls awaiting their response, per tab
    sent,           \* list requests sent by the last handler and its effects
    selectedProduct, videos, videosTotal, videosLoading, videosPage,
    videoReqs,      \* video requests awaiting their response
    \* ---- a streamed message as Copilot renders it (SpecMarkdown) ----
    mdText,         \* msg.content of the last message, grown by the stream
    mdStreaming,    \* the streaming flag seen by the render
    displayContent, \* what the render hands to ReactMarkdown
    \* ---- CRCreator page and the shop store (SpecCR) ----
    crProjects,     \* useState<CRProject[]>: the loaded list
    expandedId, expandedDetail, loadingDetail,
    selectedShopId, \* shop store
    crError, generating, crResult,
    gen,            \* the running handleGenerate call
    detailReqs,     \* GET /cr/projects/{id} awaiting their response
    crLast,         \* record of the last CRCreator step (history)
    \* ---- delete handlers (SpecDelete) ----
    shops,          \* shop store: shops
    entries,        \* KnowledgeManager: useState<KnowledgeEntry[]>
    deleting,       \* CRCreator: useState<string | null>
    delReqs,        \* DELETE calls awaiting their response
    delLast,        \* record of the last delete step (history)
    \* ---- backend/start.sh (SpecStart) ----
    shPc,           \* the line the shell is about to run
    shStatus,       \* $?: exit status of the last command
    shOut,          \* lines written to standard output
    dbRev,          \* revision of the database schema
    \* ---- the API server ----
    rejectedTokens  \* tokens the server answers 401 to

authVars == <<localStorage, store, route, pendingHref, pc, view, last>>
chatVars == <<messages, input, loading, streaming, sources, activeConvId,
              send, sends>>
marketVars == <<tab, region, page, productSort, keywords, searchInput,
                miLoading, products, productsTotal, creators, creatorsTotal,
                listReqs, sent, selectedProduct, videos, videosTotal,
                videosLoading, videosPage, videoReqs>>
mdVars == <<mdText, mdStreaming, displayContent>>
crVars == <<crProjects, expandedId, expandedDetail, loadingDetail,
            selectedShopId, crError, generating, crResult, gen, detailReqs,
            crLast>>
delVars == <<shops, entries, deleting, delReqs, delLast>>
shVars == <<shPc, shStatus, shOut, dbRev>>
extraVars == <<mdVars, crVars, delVars, shVars, rejectedTokens>>
nonAuthVars == <<chatVars, marketVars, extraVars>>

vars == <<authVars, chatVars, marketVars, extraVars>>

NULL == "null"

----------------------------------------------------------------------------
(* Bounds *)
NumTokens == 2
NumUsers  == 1

\* tokens are the non-empty strings the server issues
TokenNames == <<"t1", "t2", "t3", "t4">>
Tokens == {TokenNames[i] : i \in 1..NumTokens}
UserNames == <<"u1", "u2", "u3">>
Users  == {UserNames[i] : i \in 1..NumUsers}

----------------------------------------------------------------------------
(* Strings that the code inspects are sequences of characters *)
AuthMe    == <<"/","a","u","t","h","/","m","e">>
UrlLogin  == <<"/","a","u","t","h","/","l","o","g","i","n">>
UrlShops  == <<"/","s","h","o","p","s","/">>
UrlMeSub  == <<"/","a","u","t","h","/","m","e","/">>
UrlV2Me   == <<"/","v","2","/","a","u","t","h","/","m","e">>
UrlChat   == <<"/","c","o","p","i","l","o","t","/","c","h","a","t">>
NoUrl     == <<>>
Urls      == {AuthMe, UrlLogin, UrlShops, UrlMeSub, UrlV2Me, UrlChat}

\* String.prototype.endsWith
EndsWith(s, suf) ==
    /\ Len(suf) <= Len(s)
    /\ SubSeq(s, Len(s) - Len(suf) + 1, Len(s)) = suf

\* String.prototype.startsWith
StartsWith(s, pre) ==
    /\ Len(pre) <= Len(s)
    /\ SubSeq(s, 1, Len(pre)) = pre

----------------------------------------------------------------------------
(* authStore.ts *)
InitialState == [user |-> NULL, token |-> NULL, isAuthenticated |-> FALSE]

\* setAuth: localStorage.setItem, then set({user, token, isAuthenticated})
setAuth_NoPersist(s, ls, user, token) ==
    [ls |-> ls,
     st |-> [s EXCEPT !.user = user, !.token = token, !.isAuthenticated = TRUE]]
setAuth(s, ls, user, token) ==
    [ls |-> token,
     st |-> [s EXCEPT !.user = user, !.token = token, !.isAuthenticated = TRUE]]

\* logout: localStorage.removeItem, then set({null, null, false})
logout(s, ls) ==
    [ls |-> NULL,
     st |-> [s EXCEPT !.user = NULL, !.token = NULL, !.isAuthenticated = FALSE]]

\* hydrate: reads the key; only a truthy token updates the store
hydrate_FlagOnly(s, ls) ==
    IF ls # NULL THEN [s EXCEPT !.isAuthenticated = TRUE] ELSE s
hydrate(s, ls) ==
    IF ls # NULL
    THEN [s EXCEPT !.token = ls, !.isAuthenticated = TRUE]
    ELSE s

\* the selector (s) => s.isHydrating, taken for its truthiness: a store
\* state without that field yields undefined, which is falsy
isHydrating(s) ==
    IF "isHydrating" \in DOMAIN s THEN s.isHydrating ELSE FALSE

----------------------------------------------------------------------------
(* ProtectedRoute.tsx and App *)
ProtectedRoute_NoGuard(s) ==
    IF isHydrating(s) THEN "spinner" ELSE "children"
ProtectedRoute(s) ==
    IF isHydrating(s) THEN "spinner"
    ELSE IF ~s.isAuthenticated THEN "Navigate"
    ELSE "children"

LoginPath == "/login"
ProtectedPaths == {"/", "/cr-creator", "/market", "/knowledge", "/copilot"}
Paths == {LoginPath} \cup ProtectedPaths

Page(r) ==
    CASE r = "/"           -> "Dashboard"
      [] r = "/cr-creator" -> "CRCreator"
      [] r = "/market"     -> "MarketIntelligence"
      [] r = "/knowledge"  -> "KnowledgeManager"
      [] r = "/copilot"    -> "Copilot"
ProtectedPages == {Page(r) : r \in ProtectedPaths}

\* the element tree the Routes of App render at path r with store state s
App(r, s) ==
    IF r = LoginPath THEN "Login"
    ELSE LET g == ProtectedRoute(s)
         IN  IF g = "children" THEN Page(r) ELSE g

\* <Navigate to="/login" replace/> navigates in its effect
AfterNavigate(r, s) == IF App(r, s) = "Navigate" THEN LoginPath ELSE r

----------------------------------------------------------------------------
(* services/api.ts *)
NoAuth == <<>>
Bearer(t) == <<"Bearer", t>>

\* request interceptor
RequestInterceptor_RawToken(config, ls) ==
    IF ls # NULL THEN [config EXCEPT !.Authorization = <<ls>>] ELSE config
RequestInterceptor(config, ls) ==
    IF ls # NULL THEN [config EXCEPT !.Authorization = Bearer(ls)] ELSE config

\* response interceptor, error branch: the new local storage value, the
\* new pending location and the settlement handed to the caller
ResponseError_NoMeCheck(error, ls, href) ==
    IF error.status = 401
    THEN [ls |-> NULL, href |-> LoginPath, result |-> "rejected"]
    ELSE [ls |-> ls, href |-> href, result |-> "rejected"]
ResponseError(error, ls, href) ==
    IF error.status = 401 /\ ~EndsWith(error.url, AuthMe)
    THEN [ls |-> NULL, href |-> LoginPath, result |-> "rejected"]
    ELSE [ls |-> ls, href |-> href, result |-> "rejected"]

Statuses == {401, 403, 500}
Configs == [url : Urls, Authorization : {NoAuth} \cup {Bearer(t) : t \in Tokens}]
Errors  == [status : Statuses, url : Urls \cup {NoUrl}]

----------------------------------------------------------------------------
(* Copilot: bounds *)
MaxEvents == 2      \* events the server sends in one stream
MaxSends  == 1      \* sends started in one run

(* Copilot: text is a sequence of characters *)
RECURSIVE TrimLeft(_)
TrimLeft(s) ==
    IF s # <<>> /\ Head(s) = " " THEN TrimLeft(Tail(s)) ELSE s
RECURSIVE TrimRight(_)
TrimRight(s) ==
    IF s # <<>> /\ s[Len(s)] = " " THEN TrimRight(SubSeq(s, 1, Len(s) - 1)) ELSE s
\* String.prototype.trim
Trim(s) == TrimRight(TrimLeft(s))

Inputs == {<<>>, <<" ">>, <<"q">>}
Replies == {<<"r">>}
ErrorText == <<"error-text">>
HistoryLimit == 10

\* Array.prototype.slice(-n)
SliceLast(seq, n) ==
    IF Len(seq) <= n THEN seq ELSE SubSeq(seq, Len(seq) - n + 1, Len(seq))

UserMsg(c) == [role |-> "user", content |-> c]
AssistantMsg(c) == [role |-> "assistant", content |-> c]

\* conversations already on screen when a send starts (loadConversation)
LoadedConversations == {<<>>, <<UserMsg(<<"p">>), AssistantMsg(<<"o">>)>>}

----------------------------------------------------------------------------
(* Copilot: the event stream on the wire *)
TextEvent(c) == [type |-> "text", content |-> c]
SourcesEvent == [type |-> "sources", content |-> "s"]
ConvEvent    == [type |-> "conversation_id", content |-> "c"]
DoneEvent    == [type |-> "done", content |-> "x"]
Events == {TextEvent("a"), TextEvent("b"), SourcesEvent, ConvEvent, DoneEvent}

RECURSIVE SeqsUpTo(_, _)
SeqsUpTo(S, n) ==
    IF n = 0 THEN {<<>>}
    ELSE LET shorter == SeqsUpTo(S, n - 1)
         IN  shorter \cup {Append(q, e) : q \in shorter, e \in S}

TypeTag(ty) ==
    CASE ty = "text" -> "T"
      [] ty = "sources" -> "S"
      [] ty = "conversation_id" -> "C"
      [] OTHER -> "D"

DataPrefix == <<"d","a","t","a",":"," ">>
\* the JSON text of one event: an object, one character per part
Json(e) == <<"{", TypeTag(e.type), e.content, "}">>
\* one server-sent event: the data line and the blank line ending it
EventBytes(e) == DataPrefix \o Json(e) \o <<"\n", "\n">>

RECURSIVE Encode(_)
Encode(evs) ==
    IF evs = <<>> THEN <<>> ELSE EventBytes(Head(evs)) \o Encode(Tail(evs))

\* the concatenation of the content of the text events, in sending order
RECURSIVE TextOf(_)
TextOf(evs) ==
    IF evs = <<>> THEN <<>>
    ELSE (IF Head(evs).type = "text" THEN <<Head(evs).content>> ELSE <<>>)
         \o TextOf(Tail(evs))

\* the longest stream within the bounds
MaxWire == MaxEvents * Len(EventBytes(DoneEvent))

----------------------------------------------------------------------------
(* Copilot: the reader loop of handleSend *)
\* String.prototype.split("\n")
RECURSIVE SplitLines(_, _)
SplitLines(s, cur) ==
    IF s = <<>> THEN <<cur>>
    ELSE IF Head(s) = "\n" THEN <<cur>> \o SplitLines(Tail(s), <<>>)
    ELSE SplitLines(Tail(s), Append(cur, Head(s)))
Split(s) == SplitLines(s, <<>>)

\* JSON.parse succeeds on a complete object only
JsonParses(t) ==
    /\ Len(t) = 4
    /\ t[1] = "{"
    /\ t[4] = "}"
    /\ t[2] \in {"T", "S", "C", "D"}
JsonType(t) ==
    CASE t[2] = "T" -> "text"
      [] t[2] = "S" -> "sources"
      [] t[2] = "C" -> "conversation_id"
      [] OTHER -> "done"

\* setMessages((prev) => { updated = [...prev]; updated[length-1] = ... })
ReplaceLast(prev, m) ==
    IF prev = <<>> THEN prev ELSE [prev EXCEPT ![Len(prev)] = m]

\* the body of the for loop, for one line; st holds assistantContent and
\* the React state the loop writes
ProcessLine(st, line) ==
    IF ~StartsWith(line, DataPrefix) THEN st
    ELSE LET body == SubSeq(line, Len(DataPrefix) + 1, Len(line))
         IN  IF ~JsonParses(body) THEN st
             ELSE IF JsonType(body) = "text" THEN
                  LET c == st.assistantContent \o <<body[3]>>
                  IN  [st EXCEPT !.streaming = IF st.assistantContent = <<>>
                                              THEN TRUE ELSE @,
                                 !.assistantContent = c,
                                 !.messages = ReplaceLast(@, AssistantMsg(c))]
             ELSE IF JsonType(body) = "sources" THEN
                  [st EXCEPT !.sources = <<"s1">>]
             ELSE IF JsonType(body) = "conversation_id" THEN
                  [st EXCEPT !.activeConvId = "c1"]
             ELSE st

RECURSIVE ProcessLines(_, _)
ProcessLines(st, lines) ==
    IF lines = <<>> THEN st
    ELSE ProcessLines(ProcessLine(st, Head(lines)), Tail(lines))

\* one iteration of the while loop on a chunk that was read
ProcessChunk(st, chunk) == ProcessLines(st, Split(chunk))

\* the catch branch: setMessages([...newMessages, {assistant, content}])
FallbackMessages_AppendToShown(newMessages, shown, content) ==
    Append(shown, AssistantMsg(content))
FallbackMessages(newMessages, shown, content) ==
    Append(newMessages, AssistantMsg(content))

----------------------------------------------------------------------------
(* Copilot: actions *)
NoSend == [pc |-> "idle", input |-> <<>>, messages |-> <<>>,
           newMessages |-> <<>>, activeConvId |-> NULL,
           streamReq |-> [url |-> "none"], posts |-> <<>>, events |-> <<>>,
           wire |-> <<>>, pos |-> 0, assistantContent |-> <<>>]

ChatOff ==
    /\ messages = <<>>
    /\ input = <<>>
    /\ loading = FALSE
    /\ streaming = FALSE
    /\ sources = <<>>
    /\ activeConvId = NULL
    /\ send = NoSend
    /\ sends = 0

\* the Copilot page is open in a logged-in session
ChatInit ==
    /\ localStorage \in Tokens
    /\ store = [user |-> UserNames[1], token |-> localStorage,
                isAuthenticated |-> TRUE]
    /\ route = "/copilot"
    /\ pendingHref = NULL
    /\ pc = "ready"
    /\ view = "Copilot"
    /\ last = [op |-> "hydrate", after |-> [op |-> "none"]]
    /\ messages \in LoadedConversations
    /\ activeConvId = IF messages = <<>> THEN NULL ELSE "c1"
    /\ input = <<>>
    /\ loading = FALSE
    /\ streaming = FALSE
    /\ sources = <<>>
    /\ send = NoSend
    /\ sends = 0
    /\ rejectedTokens \in {{}, {localStorage}}

chatFrame == <<store, route, pc, view, marketVars, extraVars>>

\* onChange of the textarea (disabled while loading)
SetInput(v) ==
    /\ ~loading
    /\ v # input
    /\ input' = v
    /\ last' = [op |-> "input"]
    /\ UNCHANGED <<localStorage, pendingHref, chatFrame>>
    /\ UNCHANGED <<messages, loading, streaming, sources, activeConvId, send, sends>>

RequestBody == [message |-> input,
                history |-> SliceLast(messages, HistoryLimit),
                conversation_id |-> activeConvId]

\* handleSend up to the await of fetch
HandleSend ==
    /\ send.pc = "idle"
    /\ sends < MaxSends
    /\ ~(Trim(input) = <<>> \/ loading)
    /\ messages' = Append(messages, UserMsg(input))
    /\ input' = <<>>
    /\ loading' = TRUE
    /\ sources' = <<>>
    /\ send' = [pc |-> "fetch",
                input |-> input,
                messages |-> messages,
                newMessages |-> Append(messages, UserMsg(input)),
                activeConvId |-> activeConvId,
                streamReq |-> [url |-> "/copilot/chat/stream",
                               Authorization |-> Bearer(localStorage),
                               data |-> RequestBody],
                posts |-> <<>>,
                events |-> <<>>,
                wire |-> <<>>,
                pos |-> 0,
                assistantContent |-> <<>>]
    /\ sends' = sends + 1
    /\ last' = [op |-> "send"]
    /\ UNCHANGED <<localStorage, pendingHref, chatFrame>>
    /\ UNCHANGED <<streaming, activeConvId>>

\* the server's auth layer: a request bearing a rejected token is answered
\* 401, whatever client sent it
Rejects(authorization) ==
    /\ Len(authorization) = 2
    /\ authorization[2] \in rejectedTokens

StartFallback_NoPost(why) ==
    /\ messages' = FallbackMessages(send.newMessages, messages, ErrorText)
    /\ loading' = FALSE
    /\ streaming' = FALSE
    /\ send' = [send EXCEPT !.pc = "idle"]
    /\ last' = [op |-> "failedOver", why |-> why,
                partial |-> send.assistantContent,
                ok |-> FALSE, content |-> ErrorText]
    /\ UNCHANGED <<localStorage, pendingHref, chatFrame>>
    /\ UNCHANGED <<input, sources, activeConvId, sends>>

\* entering the catch branch: the non-streaming POST leaves through the
\* api client
StartFallback(why) ==
    /\ send' = [send EXCEPT
                  !.pc = "post",
                  !.posts = Append(@, RequestInterceptor(
                               [url |-> UrlChat, Authorization |-> NoAuth,
                                data |-> [message |-> send.input,
                                          history |-> SliceLast(send.messages, HistoryLimit),
                                          conversation_id |-> send.activeConvId]],
                               localStorage))]
    /\ last' = [op |-> "fallback", why |-> why,
                partial |-> send.assistantContent]
    /\ UNCHANGED <<localStorage, pendingHref, chatFrame>>
    /\ UNCHANGED <<messages, input, loading, streaming, sources, activeConvId, sends>>

\* fetch rejects, or the response is not ok, or it has no body reader
StreamRequestFails(why) ==
    /\ send.pc = "fetch"
    /\ why \in {"fetch rejected", "not ok", "no reader"}
    /\ Rejects(send.streamReq.Authorization) => why = "not ok"
    /\ StartFallback(why)

\* the response is ok and has a reader: the empty assistant message is
\* shown and the loop starts; evs is what the server is going to send
StreamOpens(evs) ==
    /\ send.pc = "fetch"
    /\ ~Rejects(send.streamReq.Authorization)
    /\ messages' = Append(send.newMessages, AssistantMsg(<<>>))
    /\ send' = [send EXCEPT !.pc = "read", !.events = evs, !.wire = Encode(evs)]
    /\ last' = [op |-> "open"]
    /\ UNCHANGED <<localStorage, pendingHref, chatFrame>>
    /\ UNCHANGED <<input, loading, streaming, sources, activeConvId, sends>>

\* reader.read() returns the next n bytes
ReadChunk(n) ==
    /\ send.pc = "read"
    /\ n \in 1..(Len(send.wire) - send.pos)
    /\ LET chunk == SubSeq(send.wire, send.pos + 1, send.pos + n)
           st == ProcessChunk([assistantContent |-> send.assistantContent,
                               messages |-> messages,
                               streaming |-> streaming,
                               sources |-> sources,
                               activeConvId |-> activeConvId], chunk)
       IN  /\ messages' = st.messages
           /\ streaming' = st.streaming
           /\ sources' = st.sources
           /\ activeConvId' = st.activeConvId
           /\ send' = [send EXCEPT !.pos = @ + n,
                                   !.assistantContent = st.assistantContent]
    /\ last' = [op |-> "read"]
    /\ UNCHANGED <<localStorage, pendingHref, chatFrame>>
    /\ UNCHANGED <<input, loading, sends>>

\* reader.read() returns done: the loop ends, then the finally block
StreamEnds ==
    /\ send.pc = "read"
    /\ send.pos = Len(send.wire)
    /\ loading' = FALSE
    /\ streaming' = FALSE
    /\ send' = [send EXCEPT !.pc = "idle"]
    /\ last' = [op |-> "streamDone"]
    /\ UNCHANGED <<localStorage, pendingHref, chatFrame>>
    /\ UNCHANGED <<messages, input, sources, activeConvId, sends>>

\* reader.read() throws (the connection drops), at any point of the stream
ReadThrows ==
    /\ send.pc = "read"
    /\ StartFallback("read threw")

\* the non-streaming call answers: its reply is shown, then finally
PostSucceeds(reply) ==
    /\ send.pc = "post"
    /\ ~Rejects(send.posts[Len(send.posts)].Authorization)
    /\ messages' = FallbackMessages(send.newMessages, messages, reply)
    /\ sources' = <<>>
    /\ activeConvId' = "c1"
    /\ loading' = FALSE
    /\ streaming' = FALSE
    /\ send' = [send EXCEPT !.pc = "idle"]
    /\ last' = [op |-> "failedOver", why |-> last.why, partial |-> last.partial,
                ok |-> TRUE, content |-> reply]
    /\ UNCHANGED <<localStorage, pendingHref, chatFrame>>
    /\ UNCHANGED <<input, sends>>

\* the non-streaming call fails too: the error passes the response
\* interceptor, the fixed text is shown, then finally
PostFails(status) ==
    /\ send.pc = "post"
    /\ Rejects(send.posts[Len(send.posts)].Authorization) => status = 401
    /\ LET r == ResponseError([status |-> status, url |-> UrlChat],
                              localStorage, pendingHref)
       IN  /\ localStorage' = r.ls
           /\ pendingHref' = r.href
    /\ messages' = FallbackMessages(send.newMessages, messages, ErrorText)
    /\ loading' = FALSE
    /\ streaming' = FALSE
    /\ send' = [send EXCEPT !.pc = "idle"]
    /\ last' = [op |-> "failedOver", why |-> last.why, partial |-> last.partial,
                ok |-> FALSE, content |-> ErrorText]
    /\ UNCHANGED chatFrame
    /\ UNCHANGED <<input, sources, activeConvId, sends>>

ChatNext ==
    \/ \E v \in Inputs : SetInput(v)
    \/ HandleSend
    \/ \E why \in {"fetch rejected", "not ok", "no reader"} : StreamRequestFails(why)
    \/ \E evs \in SeqsUpTo(Events, MaxEvents) : StreamOpens(evs)
    \/ \E n \in 1..MaxWire : ReadChunk(n)
    \/ StreamEnds
    \/ ReadThrows
    \/ \E reply \in Replies : PostSucceeds(reply)
    \/ \E status \in Statuses : PostFails(status)


----------------------------------------------------------------------------
(* SpecAuth: actions *)
NoPrev == [op |-> "none"]

AuthInit ==
    /\ localStorage \in {NULL} \cup Tokens
    /\ store = InitialState
    /\ route \in Paths
    /\ pendingHref = NULL
    /\ pc = "mounted"
    /\ view = App(route, InitialState)
    /\ last = [op |-> "reload", after |-> NoPrev]

\* a page load (reload, typed URL, or the load that window.location.href
\* started): the store is rebuilt, App renders once, effects are pending
PageLoad(r) ==
    /\ pendingHref # NULL => r = pendingHref
    /\ store' = InitialState
    /\ route' = r
    /\ view' = App(r, InitialState)
    /\ pc' = "mounted"
    /\ pendingHref' = NULL
    /\ last' = [op |-> "reload",
                after |-> IF last.op \in {"setAuth", "logout"} THEN last ELSE NoPrev]
    /\ UNCHANGED localStorage
    /\ UNCHANGED nonAuthVars

\* effects of the first commit: Navigate's effect (children first), then
\* App's useEffect calling hydrate(); the store change re-renders
MountEffects ==
    /\ pc = "mounted"
    /\ LET r1 == AfterNavigate(route, store)
           s1 == hydrate(store, localStorage)
       IN  /\ store' = s1
           /\ route' = AfterNavigate(r1, s1)
           /\ view' = App(AfterNavigate(r1, s1), s1)
    /\ pc' = "ready"
    /\ last' = [op |-> "hydrate", after |-> last.after]
    /\ UNCHANGED <<localStorage, pendingHref>>
    /\ UNCHANGED nonAuthVars

\* Login.handleSubmit, success path: setAuth(user, token); navigate("/")
LoginSuccess(u, t) ==
    /\ pc = "ready"
    /\ view = "Login"
    /\ LET r == setAuth(store, localStorage, u, t)
       IN  /\ localStorage' = r.ls
           /\ store' = r.st
           /\ route' = AfterNavigate("/", r.st)
           /\ view' = App(AfterNavigate("/", r.st), r.st)
    /\ last' = [op |-> "setAuth", token |-> t]
    /\ UNCHANGED <<pendingHref, pc>>
    /\ UNCHANGED nonAuthVars

\* Sidebar.handleLogout: logout(); navigate("/login")
HandleLogout ==
    /\ pc = "ready"
    /\ view \in ProtectedPages
    /\ LET r == logout(store, localStorage)
       IN  /\ localStorage' = r.ls
           /\ store' = r.st
           /\ route' = LoginPath
           /\ view' = App(LoginPath, r.st)
    /\ last' = [op |-> "logout"]
    /\ UNCHANGED <<pendingHref, pc>>
    /\ UNCHANGED nonAuthVars

\* a Sidebar NavLink
NavLink(r) ==
    /\ pc = "ready"
    /\ view \in ProtectedPages
    /\ r \in ProtectedPaths
    /\ r # route
    /\ route' = AfterNavigate(r, store)
    /\ view' = App(AfterNavigate(r, store), store)
    /\ last' = [op |-> "nav"]
    /\ UNCHANGED <<localStorage, store, pendingHref, pc>>
    /\ UNCHANGED nonAuthVars

\* a request leaves through the api client
ApiRequest(config) ==
    /\ pc = "ready"
    /\ last' = [op |-> "request", in |-> config,
                out |-> RequestInterceptor(config, localStorage)]
    /\ UNCHANGED <<localStorage, store, route, pendingHref, pc, view>>
    /\ UNCHANGED nonAuthVars

\* an error response comes back through the api client
ApiResponseError(error) ==
    /\ pc = "ready"
    /\ LET r == ResponseError(error, localStorage, pendingHref)
       IN  /\ localStorage' = r.ls
           /\ pendingHref' = r.href
           /\ last' = [op |-> "response", error |-> error, result |-> r.result,
                       lsBefore |-> localStorage, hrefBefore |-> pendingHref]
    /\ UNCHANGED <<store, route, pc, view>>
    /\ UNCHANGED nonAuthVars

AuthNext ==
    \/ \E r \in Paths : PageLoad(r)
    \/ MountEffects
    \/ \E u \in Users, t \in Tokens : LoginSuccess(u, t)
    \/ HandleLogout
    \/ \E r \in ProtectedPaths : NavLink(r)
    \/ \E c \in Configs : ApiRequest(c)
    \/ \E e \in Errors : ApiResponseError(e)


----------------------------------------------------------------------------
(* MarketIntelligence: bounds and constants *)
NumRegions  == 2    \* regions offered by the selector
NumSorts    == 2    \* product sort orders offered
MaxPages    == 3    \* pages of the largest list the server reports
MaxInFlight == 2    \* list requests awaiting their response
PAGE_SIZE   == 10
PageCap     == 250

RegionNames == <<"JP", "US", "GB", "ID">>
REGIONS == {RegionNames[i] : i \in 1..NumRegions}
SortNames == <<"day7_units_sold", "day7_gmv", "total_units_sold", "total_gmv">>
Sorts == {SortNames[i] : i \in 1..NumSorts}
Tabs == {"products", "creators"}
SearchTexts == {"", "k"}

UrlProducts == <<"/","f","a","s","t","m","o","s","s","/","p","r","o","d","u","c","t","s">>
UrlCreators == <<"/","f","a","s","t","m","o","s","s","/","c","r","e","a","t","o","r","s","/","r","a","n","k","i","n","g">>
\* `/fastmoss/products/${product_id}/videos`
UrlVideos(id) == UrlProducts \o <<"/", id, "/","v","i","d","e","o","s">>

Min(a, b) == IF a <= b THEN a ELSE b
\* Math.ceil(total / PAGE_SIZE)
TotalPages(total) == (total + PAGE_SIZE - 1) \div PAGE_SIZE

\* what the server may answer to a list request: nothing, or a list of
\* MaxPages pages of which the items of one page are returned
ListAnswers == {[total |-> 0, items |-> <<>>],
                [total |-> MaxPages * PAGE_SIZE - 5, items |-> <<"P1", "P2">>]}

\* the request fetchData sends for the values of one render
ListRequest(d) ==
    IF d.tab = "products"
    THEN [path |-> UrlProducts, region |-> d.region, page |-> d.page,
          page_size |-> PAGE_SIZE, sort_by |-> d.productSort,
          keywords |-> d.keywords]
    ELSE [path |-> UrlCreators, region |-> d.region,
          page |-> d.page, page_size |-> PAGE_SIZE, date_type |-> "week"]

FilterDeps(d) == <<d.tab, d.region, d.productSort, d.keywords>>
FetchDeps(d) == <<d.tab, d.region, d.page, d.productSort, d.keywords>>

\* the two effects after the render that follows a state change from the
\* values old to the values new: the reset effect queues setPage(1), the
\* fetch effect calls fetchData() with the values of that same render; when
\* the page did change, the next render runs the fetch effect once more
RunEffects(old, new) ==
    LET resetRuns == FilterDeps(new) # FilterDeps(old)
        fetchRuns == FetchDeps(new) # FetchDeps(old)
        first  == IF fetchRuns THEN <<new>> ELSE <<>>
        page2  == IF resetRuns THEN 1 ELSE new.page
        second == IF page2 # new.page THEN <<[new EXCEPT !.page = page2]>>
                  ELSE <<>>
    IN  [page |-> page2, calls |-> first \o second]

----------------------------------------------------------------------------
(* MarketIntelligence: the list (tabs, filters, paging) *)
Cur == [tab |-> tab, region |-> region, page |-> page,
        productSort |-> productSort, keywords |-> keywords]

InFlight == listReqs["products"] + listReqs["creators"]

RECURSIVE AddReqs(_, _)
AddReqs(reqs, calls) ==
    IF calls = <<>> THEN reqs
    ELSE AddReqs([reqs EXCEPT ![Head(calls).tab] = @ + 1], Tail(calls))

detailVars == <<selectedProduct, videos, videosTotal, videosLoading,
                videosPage, videoReqs>>
listVars == <<tab, region, page, productSort, keywords, searchInput,
              miLoading, products, productsTotal, creators, creatorsTotal,
              listReqs, sent>>

\* a state setter was called with the values new: render, then effects
Change(new) ==
    LET e == RunEffects(Cur, new)
    IN  /\ InFlight + Len(e.calls) <= MaxInFlight
        /\ tab' = new.tab
        /\ region' = new.region
        /\ productSort' = new.productSort
        /\ keywords' = new.keywords
        /\ page' = e.page
        /\ sent' = [i \in 1..Len(e.calls) |-> ListRequest(e.calls[i])]
        /\ listReqs' = AddReqs(listReqs, e.calls)
        /\ miLoading' = IF e.calls # <<>> THEN TRUE ELSE miLoading
        /\ UNCHANGED <<searchInput, products, productsTotal, creators,
                       creatorsTotal>>
        /\ UNCHANGED <<authVars, chatVars, extraVars, detailVars>>

ModalClosed == selectedProduct = NULL

SetTab(t) ==
    /\ ModalClosed
    /\ t # tab
    /\ Change([Cur EXCEPT !.tab = t])

SetRegion(r) ==
    /\ ModalClosed
    /\ r # region
    /\ Change([Cur EXCEPT !.region = r])

SetProductSort(s) ==
    /\ ModalClosed
    /\ tab = "products"
    /\ s # productSort
    /\ Change([Cur EXCEPT !.productSort = s])

SetSearchInput(v) ==
    /\ ModalClosed
    /\ tab = "products"
    /\ v # searchInput
    /\ searchInput' = v
    /\ sent' = <<>>
    /\ UNCHANGED <<tab, region, page, productSort, keywords, miLoading,
                   products, productsTotal, creators, creatorsTotal, listReqs>>
    /\ UNCHANGED <<authVars, chatVars, extraVars, detailVars>>

\* handleSearch: setKeywords(searchInput)
HandleSearch ==
    /\ ModalClosed
    /\ tab = "products"
    /\ searchInput # keywords
    /\ Change([Cur EXCEPT !.keywords = searchInput])

\* renderPagination is on screen below a non-empty list that is not loading
CurTotal == IF tab = "products" THEN productsTotal ELSE creatorsTotal
CurItems == IF tab = "products" THEN products ELSE creators
PaginationShown ==
    /\ ModalClosed
    /\ ~miLoading
    /\ CurItems # <<>>
    /\ TotalPages(CurTotal) > 1

PrevPage ==
    /\ PaginationShown
    /\ ~(page <= 1)
    /\ Change([Cur EXCEPT !.page = page - 1])

NextPage ==
    /\ PaginationShown
    /\ ~(page >= Min(TotalPages(CurTotal), PageCap))
    /\ Change([Cur EXCEPT !.page = page + 1])

\* fetchData after its await, for a call made while the tab was t
ListResponse(t, ans) ==
    /\ listReqs[t] > 0
    /\ listReqs' = [listReqs EXCEPT ![t] = @ - 1]
    /\ IF t = "products"
       THEN /\ products' = ans.items
            /\ productsTotal' = ans.total
            /\ UNCHANGED <<creators, creatorsTotal>>
       ELSE /\ creators' = ans.items
            /\ creatorsTotal' = ans.total
            /\ UNCHANGED <<products, productsTotal>>
    /\ miLoading' = FALSE
    /\ sent' = <<>>
    /\ UNCHANGED <<tab, region, page, productSort, keywords, searchInput>>
    /\ UNCHANGED <<authVars, chatVars, extraVars, detailVars>>

\* the request fails: the error passes the response interceptor, then the
\* catch and finally blocks of fetchData
ListFailure(t, status) ==
    /\ listReqs[t] > 0
    /\ listReqs' = [listReqs EXCEPT ![t] = @ - 1]
    /\ LET r == ResponseError([status |-> status,
                               url |-> ListRequest([Cur EXCEPT !.tab = t]).path],
                              localStorage, pendingHref)
       IN  /\ localStorage' = r.ls
           /\ pendingHref' = r.href
    /\ IF t = "products"
       THEN /\ products' = <<>>
            /\ productsTotal' = 0
            /\ UNCHANGED <<creators, creatorsTotal>>
       ELSE /\ creators' = <<>>
            /\ creatorsTotal' = 0
            /\ UNCHANGED <<products, productsTotal>>
    /\ miLoading' = FALSE
    /\ sent' = <<>>
    /\ UNCHANGED <<tab, region, page, productSort, keywords, searchInput>>
    /\ UNCHANGED <<store, route, pc, view, last>>
    /\ UNCHANGED <<chatVars, extraVars, detailVars>>

ListNext ==
    \/ \E t \in Tabs : SetTab(t)
    \/ \E r \in REGIONS : SetRegion(r)
    \/ \E s \in Sorts : SetProductSort(s)
    \/ \E v \in SearchTexts : SetSearchInput(v)
    \/ HandleSearch
    \/ PrevPage
    \/ NextPage
    \/ \E t \in Tabs, ans \in ListAnswers : ListResponse(t, ans)
    \/ \E t \in Tabs, status \in Statuses : ListFailure(t, status)

DetailClosed ==
    /\ selectedProduct = NULL
    /\ videos = <<>>
    /\ videosTotal = 0
    /\ videosLoading = FALSE
    /\ videosPage = 1
    /\ videoReqs = <<>>

\* the state of the page when it is not open
MarketOff ==
    /\ tab = "products"
    /\ region = RegionNames[1]
    /\ page = 1
    /\ productSort = SortNames[1]
    /\ keywords = ""
    /\ searchInput = ""
    /\ miLoading = FALSE
    /\ products = <<>>
    /\ productsTotal = 0
    /\ creators = <<>>
    /\ creatorsTotal = 0
    /\ listReqs = [t \in Tabs |-> 0]
    /\ sent = <<>>
    /\ DetailClosed

\* a logged-in session showing the page of path r
Session(r) ==
    /\ localStorage \in Tokens
    /\ store = [user |-> UserNames[1], token |-> localStorage,
                isAuthenticated |-> TRUE]
    /\ route = r
    /\ pendingHref = NULL
    /\ pc = "ready"
    /\ view = Page(r)
    /\ last = [op |-> "hydrate", after |-> [op |-> "none"]]

\* the page after its first commit: useState initial values, the reset
\* effect left page at 1 and the fetch effect has called fetchData()
ListInit ==
    /\ Session("/market")
    /\ tab = "products"
    /\ region = RegionNames[1]
    /\ page = 1
    /\ productSort = SortNames[1]
    /\ keywords = ""
    /\ searchInput = ""
    /\ miLoading = TRUE
    /\ products = <<>>
    /\ productsTotal = 0
    /\ creators = <<>>
    /\ creatorsTotal = 0
    /\ listReqs = [t \in Tabs |-> IF t = "products" THEN 1 ELSE 0]
    /\ sent = <<ListRequest([tab |-> "products", region |-> RegionNames[1],
                             page |-> 1, productSort |-> SortNames[1],
                             keywords |-> ""])>>
    /\ DetailClosed

----------------------------------------------------------------------------
(* MarketIntelligence: the product detail modal *)
MaxVideos     == 2  \* total the server reports for a product with videos
MaxVideoPages == 2  \* pages of videos asked for in one opening
MaxVideoReqs  == 2  \* video requests awaiting their response

\* what the server may answer to a request for page n of the videos of
\* product id: nothing, or that page (one video stands for the page)
VideoAnswers(id, n) ==
    {[total |-> 0, videos |-> <<>>],
     [total |-> MaxVideos, videos |-> <<[product |-> id, page |-> n]>>]}

RemoveAt(seq, i) == SubSeq(seq, 1, i - 1) \o SubSeq(seq, i + 1, Len(seq))

\* the list is loaded and shows its rows
DetailInit ==
    /\ Session("/market")
    /\ tab = "products"
    /\ region = RegionNames[1]
    /\ page = 1
    /\ productSort = SortNames[1]
    /\ keywords = ""
    /\ searchInput = ""
    /\ miLoading = FALSE
    /\ products = <<"P1", "P2">>
    /\ productsTotal = MaxPages * PAGE_SIZE - 5
    /\ creators = <<>>
    /\ creatorsTotal = 0
    /\ listReqs = [t \in Tabs |-> 0]
    /\ sent = <<>>
    /\ DetailClosed

detailFrame == <<store, route, pc, view, last>>

\* openProductDetail up to its await; the modal covers the rows, so a row
\* is clicked only while no product is selected
OpenProductDetail(p) ==
    /\ tab = "products"
    /\ ~miLoading
    /\ \E i \in 1..Len(products) : products[i] = p
    /\ selectedProduct = NULL
    /\ Len(videoReqs) < MaxVideoReqs
    /\ selectedProduct' = p
    /\ videosPage' = 1
    /\ videosLoading' = TRUE
    /\ videos' = <<>>
    /\ videoReqs' = Append(videoReqs,
                       [fn |-> "openProductDetail", url |-> UrlVideos(p),
                        product |-> p, page |-> 1])
    /\ UNCHANGED videosTotal
    /\ UNCHANGED <<authVars, chatVars, extraVars, listVars>>

\* loadMoreVideos up to its await; the button is below a non-empty list
\* that is shorter than videosTotal, and disabled while videosLoading
LoadMoreVideos ==
    /\ selectedProduct # NULL
    /\ videos # <<>>
    /\ Len(videos) < videosTotal
    /\ ~videosLoading
    /\ videosPage < MaxVideoPages
    /\ Len(videoReqs) < MaxVideoReqs
    /\ videosLoading' = TRUE
    /\ videoReqs' = Append(videoReqs,
                       [fn |-> "loadMoreVideos", url |-> UrlVideos(selectedProduct),
                        product |-> selectedProduct, page |-> videosPage + 1])
    /\ UNCHANGED <<selectedProduct, videos, videosTotal, videosPage>>
    /\ UNCHANGED <<authVars, chatVars, extraVars, listVars>>

\* the X button of the modal
CloseProductDetail ==
    /\ selectedProduct # NULL
    /\ selectedProduct' = NULL
    /\ videos' = <<>>
    /\ videosTotal' = 0
    /\ UNCHANGED <<videosLoading, videosPage, videoReqs>>
    /\ UNCHANGED <<authVars, chatVars, extraVars, listVars>>

\* the i-th pending video request is answered: the rest of its function
VideoResponse(i, ans) ==
    /\ i \in 1..Len(videoReqs)
    /\ ans \in VideoAnswers(videoReqs[i].product, videoReqs[i].page)
    /\ IF videoReqs[i].fn = "openProductDetail"
       THEN /\ videos' = ans.videos
            /\ videosTotal' = ans.total
            /\ UNCHANGED videosPage
       ELSE /\ videos' = videos \o ans.videos
            /\ videosPage' = videoReqs[i].page
            /\ UNCHANGED videosTotal
    /\ videosLoading' = FALSE
    /\ videoReqs' = RemoveAt(videoReqs, i)
    /\ UNCHANGED selectedProduct
    /\ UNCHANGED <<authVars, chatVars, extraVars, listVars>>

\* the i-th pending video request fails: response interceptor, catch, finally
VideoFailure(i, status) ==
    /\ i \in 1..Len(videoReqs)
    /\ LET r == ResponseError([status |-> status, url |-> videoReqs[i].url],
                              localStorage, pendingHref)
       IN  /\ localStorage' = r.ls
           /\ pendingHref' = r.href
    /\ IF videoReqs[i].fn = "openProductDetail"
       THEN /\ videos' = <<>>
            /\ videosTotal' = 0
       ELSE UNCHANGED <<videos, videosTotal>>
    /\ videosLoading' = FALSE
    /\ videoReqs' = RemoveAt(videoReqs, i)
    /\ UNCHANGED <<selectedProduct, videosPage>>
    /\ UNCHANGED detailFrame
    /\ UNCHANGED <<chatVars, extraVars, listVars>>

DetailNext ==
    \/ \E p \in {"P1", "P2"} : OpenProductDetail(p)
    \/ LoadMoreVideos
    \/ CloseProductDetail
    \/ \E i \in 1..MaxVideoReqs :
          \E ans \in [total : {0, MaxVideos},
                      videos : {<<>>} \cup {<<[product |-> p, page |-> n]>> :
                                             p \in {"P1", "P2"}, n \in 1..MaxVideoPages}] :
             VideoResponse(i, ans)
    \/ \E i \in 1..MaxVideoReqs, status \in Statuses : VideoFailure(i, status)

----------------------------------------------------------------------------
(* Copilot: sanitizePartialMarkdown and the render of a streamed message *)
MaxMdLen == 4

\* the characters the function distinguishes, and a plain one
Star    == "*"
Tick    == "backtick"
Newline == "\n"
Plain   == "a"
MdChars == {Star, Tick, Plain}

\* (text.match(/cc..c/g) || []).length for a run of k characters c:
\* matches are taken left to right and do not overlap
RECURSIVE CountRuns(_, _, _, _)
CountRuns(text, c, k, i) ==
    IF i + k - 1 > Len(text) THEN 0
    ELSE IF \A j \in i..(i + k - 1) : text[j] = c
         THEN 1 + CountRuns(text, c, k, i + k)
         ELSE CountRuns(text, c, k, i + 1)

\* (text.match(/(?<!c)c(?!c)/g) || []).length
CountLone(text, c) ==
    Cardinality({i \in 1..Len(text) :
                    /\ text[i] = c
                    /\ (i = 1 \/ text[i - 1] # c)
                    /\ (i = Len(text) \/ text[i + 1] # c)})

BoldCount(text)       == CountRuns(text, Star, 2, 1)
ItalicCount(text)     == CountLone(text, Star)
CodeBlockCount(text)  == CountRuns(text, Tick, 3, 1)
InlineCodeCount(text) == CountLone(text, Tick)

sanitizePartialMarkdown(text) ==
    LET t1 == IF BoldCount(text) % 2 # 0 THEN text \o <<Star, Star>> ELSE text
        t2 == IF ItalicCount(t1) % 2 # 0 THEN t1 \o <<Star>> ELSE t1
        t3 == IF CodeBlockCount(t2) % 2 # 0
              THEN t2 \o <<Newline, Tick, Tick, Tick>> ELSE t2
        t4 == IF InlineCodeCount(t3) % 2 # 0 THEN t3 \o <<Tick>> ELSE t3
    IN  t4

\* the last message of the list, as the message list renders it
DisplayContent(content, isStreaming) ==
    IF isStreaming THEN sanitizePartialMarkdown(content) ELSE content

MdOff ==
    /\ mdText = <<>>
    /\ mdStreaming = FALSE
    /\ displayContent = <<>>

mdFrame == <<authVars, chatVars, marketVars, crVars, delVars, shVars,
             rejectedTokens>>

\* a text event: assistantContent += data.content, then the re-render
TextArrives(c) ==
    /\ Len(mdText) < MaxMdLen
    /\ mdText # <<>> => mdStreaming
    /\ mdText' = Append(mdText, c)
    /\ mdStreaming' = TRUE
    /\ displayContent' = DisplayContent(mdText', TRUE)
    /\ UNCHANGED mdFrame

\* the reader is done: setStreaming(false), then the re-render
StreamFinishes ==
    /\ mdStreaming
    /\ mdStreaming' = FALSE
    /\ displayContent' = DisplayContent(mdText, FALSE)
    /\ UNCHANGED <<mdText, mdFrame>>

\* the next send appends a fresh empty assistant message
NextMessage ==
    /\ ~mdStreaming
    /\ mdText # <<>>
    /\ mdText' = <<>>
    /\ displayContent' = DisplayContent(<<>>, FALSE)
    /\ UNCHANGED <<mdStreaming, mdFrame>>

MdNext ==
    \/ \E c \in MdChars : TextArrives(c)
    \/ StreamFinishes
    \/ NextMessage

----------------------------------------------------------------------------
(* CRCreator page: project list, expandable detail, generation form *)
NumProjects   == 2
NumShops      == 2
MaxDetailReqs == 2

ProjectNames == <<"p1", "p2", "p3">>
OutputNames  == <<"o1", "o2", "o3">>
ShopNames    == <<"s1", "s2", "s3">>
ProjectIds == {ProjectNames[i] : i \in 1..NumProjects}
ShopIds    == {ShopNames[i] : i \in 1..NumShops}
AllShops   == [i \in 1..NumShops |-> [id |-> ShopNames[i]]]
\* the ai_output the server holds for a generated project
OutputOf(id) == OutputNames[CHOOSE i \in 1..NumProjects : ProjectNames[i] = id]

\* GET /cr/projects?limit=10 answers: any of the projects, each with or
\* without its ai_output
RECURSIVE ProjectListsUpTo(_)
ProjectListsUpTo(n) ==
    IF n = 0 THEN {<<>>}
    ELSE LET id == ProjectNames[n]
         IN  UNION {{l,
                     Append(l, [id |-> id, ai_output |-> NULL]),
                     Append(l, [id |-> id, ai_output |-> OutputOf(id)])} :
                    l \in ProjectListsUpTo(n - 1)}
ProjectLists == ProjectListsUpTo(NumProjects)
\* every project, generated
AllProjects ==
    [i \in 1..NumProjects |->
        [id |-> ProjectNames[i], ai_output |-> OutputNames[i]]]

ListedIds(projects) == {projects[i].id : i \in 1..Len(projects)}

UrlGenerate   == <<"/","c","r","/","g","e","n","e","r","a","t","e">>
UrlCrProjects == <<"/","c","r","/","p","r","o","j","e","c","t","s">>
\* `/cr/projects/${projectId}`
UrlCrProject(id) == UrlCrProjects \o <<"/", id>>

\* the two messages setError is given (Japanese in the source)
SelectShopError == "select-a-shop"
GenerateFailed  == "generation-failed"

\* proj?.ai_output for proj = projects.find((p) => p.id === projectId)
ListedOutput_Ignored(projects, projectId) == NULL
ListedOutput(projects, projectId) ==
    IF projectId \in ListedIds(projects)
    THEN LET i == CHOOSE j \in 1..Len(projects) : projects[j].id = projectId
         IN  projects[i].ai_output
    ELSE NULL

\* the guard of handleGenerate: a shop is selected
ShopChosen_Unguarded(shopId) == TRUE
ShopChosen(shopId) == shopId # NULL

NoGen == [pc |-> "idle", shop |-> NULL, posts |-> 0]

CrOff ==
    /\ crProjects = <<>>
    /\ expandedId = NULL
    /\ expandedDetail = NULL
    /\ loadingDetail = FALSE
    /\ selectedShopId = NULL
    /\ crError = ""
    /\ generating = FALSE
    /\ crResult = NULL
    /\ gen = NoGen
    /\ detailReqs = <<>>
    /\ crLast = [op |-> "none"]

\* the page after its mount effect: the project list is loaded and
\* fetchShops has selected the first shop, if there is one
CrInit ==
    /\ shops \in {<<>>, AllShops}
    /\ crProjects \in ProjectLists
    /\ expandedId = NULL
    /\ expandedDetail = NULL
    /\ loadingDetail = FALSE
    /\ selectedShopId = (IF shops = <<>> THEN NULL ELSE shops[1].id)
    /\ crError = ""
    /\ generating = FALSE
    /\ crResult = NULL
    /\ gen = NoGen
    /\ detailReqs = <<>>
    /\ crLast = [op |-> "none"]

crFrame == <<store, route, pc, view, last, chatVars, marketVars, mdVars,
             delVars, shVars, rejectedTokens>>
\* the options of the shop <select>: the placeholder and the shops
ShopOptions(shopList) == {NULL} \cup ListedIds(shopList)
expandFrame == <<selectedShopId, crError, generating, crResult, gen,
                 crProjects>>
generateFrame == <<expandedId, expandedDetail, loadingDetail, detailReqs>>

\* onChange of the shop <select>
SelectShop(id) ==
    /\ id \in ShopOptions(shops)
    /\ selectedShopId' = id
    /\ crLast' = [op |-> "selectShop"]
    /\ UNCHANGED <<crProjects, crError, generating, crResult, gen>>
    /\ UNCHANGED <<generateFrame, localStorage, pendingHref, crFrame>>

\* onClick of a project row
HandleToggleExpand(projectId) ==
    /\ projectId \in ListedIds(crProjects)
    /\ LET listed == ListedOutput(crProjects, projectId)
       IN  IF expandedId = projectId
           THEN /\ expandedId' = NULL
                /\ expandedDetail' = NULL
                /\ UNCHANGED <<loadingDetail, detailReqs>>
           ELSE IF listed # NULL
           THEN /\ expandedId' = projectId
                /\ expandedDetail' = listed
                /\ UNCHANGED <<loadingDetail, detailReqs>>
           ELSE /\ Len(detailReqs) < MaxDetailReqs
                /\ loadingDetail' = TRUE
                /\ expandedId' = projectId
                /\ expandedDetail' = NULL
                /\ detailReqs' = Append(detailReqs, projectId)
    /\ crLast' = [op |-> "toggleExpand", id |-> projectId,
                  projects |-> crProjects, expandedId |-> expandedId,
                  sent |-> Len(detailReqs') - Len(detailReqs)]
    /\ UNCHANGED <<expandFrame, localStorage, pendingHref, crFrame>>

\* GET /cr/projects/{id} resolves: setExpandedDetail(data.ai_output)
DetailResponse(i, generated) ==
    /\ i <= Len(detailReqs)
    /\ expandedDetail' = IF generated THEN OutputOf(detailReqs[i]) ELSE NULL
    /\ loadingDetail' = FALSE
    /\ detailReqs' = RemoveAt(detailReqs, i)
    /\ crLast' = [op |-> "detailResponse"]
    /\ UNCHANGED <<expandedId, expandFrame, localStorage, pendingHref, crFrame>>

\* GET /cr/projects/{id} rejects, after the response interceptor
DetailFailure(i, status) ==
    /\ i <= Len(detailReqs)
    /\ LET r == ResponseError([status |-> status,
                               url |-> UrlCrProject(detailReqs[i])],
                              localStorage, pendingHref)
       IN  /\ localStorage' = r.ls
           /\ pendingHref' = r.href
    /\ expandedDetail' = NULL
    /\ loadingDetail' = FALSE
    /\ detailReqs' = RemoveAt(detailReqs, i)
    /\ crLast' = [op |-> "detailFailure"]
    /\ UNCHANGED <<expandedId, expandFrame, crFrame>>

\* onSubmit of the form (the submit button is disabled while generating)
HandleGenerate ==
    /\ ~generating
    /\ IF ~ShopChosen(selectedShopId)
       THEN /\ crError' = SelectShopError
            /\ gen' = [pc |-> "idle", shop |-> selectedShopId, posts |-> 0]
            /\ UNCHANGED <<generating, crResult>>
       ELSE /\ crError' = ""
            /\ generating' = TRUE
            /\ crResult' = NULL
            /\ gen' = [pc |-> "post", shop |-> selectedShopId, posts |-> 1]
    /\ crLast' = [op |-> "generate", shop |-> selectedShopId,
                  sent |-> gen'.posts]
    /\ UNCHANGED <<selectedShopId, crProjects>>
    /\ UNCHANGED <<generateFrame, localStorage, pendingHref, crFrame>>

\* POST /cr/generate resolves: setResult(data), then the list is asked
GenerateResponse ==
    /\ gen.pc = "post"
    /\ crResult' = OutputNames[1]
    /\ gen' = [gen EXCEPT !.pc = "list"]
    /\ crLast' = [op |-> "generateResponse"]
    /\ UNCHANGED <<selectedShopId, crProjects, crError, generating>>
    /\ UNCHANGED <<generateFrame, localStorage, pendingHref, crFrame>>

\* GET /cr/projects?limit=10 resolves: setProjects(updated); finally
ProjectsResponse(updated) ==
    /\ gen.pc = "list"
    /\ crProjects' = updated
    /\ generating' = FALSE
    /\ gen' = [gen EXCEPT !.pc = "idle"]
    /\ crLast' = [op |-> "generateDone"]
    /\ UNCHANGED <<selectedShopId, crError, crResult>>
    /\ UNCHANGED <<generateFrame, localStorage, pendingHref, crFrame>>

\* either call rejects, after the response interceptor: catch, finally
GenerateFailure(status, detail) ==
    /\ gen.pc \in {"post", "list"}
    /\ LET r == ResponseError([status |-> status,
                               url |-> IF gen.pc = "post" THEN UrlGenerate
                                       ELSE UrlCrProjects],
                              localStorage, pendingHref)
       IN  /\ localStorage' = r.ls
           /\ pendingHref' = r.href
    /\ crError' = IF detail # NULL THEN detail ELSE GenerateFailed
    /\ generating' = FALSE
    /\ gen' = [gen EXCEPT !.pc = "idle"]
    /\ crLast' = [op |-> "generateFailed"]
    /\ UNCHANGED <<selectedShopId, crProjects, crResult>>
    /\ UNCHANGED <<generateFrame, crFrame>>

\* the project list of the page
ExpandNext ==
    \/ \E id \in ProjectIds : HandleToggleExpand(id)
    \/ \E i \in 1..MaxDetailReqs, generated \in BOOLEAN :
          DetailResponse(i, generated)
    \/ \E i \in 1..MaxDetailReqs, status \in Statuses : DetailFailure(i, status)

\* the form of the page
GenerateNext ==
    \/ \E id \in {NULL} \cup ShopIds : SelectShop(id)
    \/ HandleGenerate
    \/ GenerateResponse
    \/ \E updated \in ProjectLists : ProjectsResponse(updated)
    \/ \E status \in Statuses, detail \in {NULL, "detail"} :
          GenerateFailure(status, detail)

----------------------------------------------------------------------------
(* Delete handlers: shop store, CRCreator, KnowledgeManager *)
NumEntries == 2
MaxDelReqs == 2

EntryNames == <<"e1", "e2", "e3">>
EntryIds == {EntryNames[i] : i \in 1..NumEntries}
AllEntries == [i \in 1..NumEntries |-> [id |-> EntryNames[i]]]

\* list.filter((x) => x.id !== id)
Without(list, id) == SelectSeq(list, LAMBDA x : x.id # id)

\* try { await api.delete(...); setList((prev) => prev.filter(...)) }
\* catch {}: the list once the DELETE call has settled
SettleDelete_Optimistic(list, id, ok) == Without(list, id)
SettleDelete(list, id, ok) == IF ok THEN Without(list, id) ELSE list

UrlKnowledge == <<"/","k","n","o","w","l","e","d","g","e">>
DeleteUrl(kind, id) ==
    CASE kind = "shop"    -> <<"/","s","h","o","p","s","/", id>>
      [] kind = "project" -> UrlCrProject(id)
      [] kind = "entry"   -> UrlKnowledge \o <<"/", id>>

DelIdle ==
    /\ deleting = NULL
    /\ delReqs = <<>>
    /\ delLast = [op |-> "none"]

DelOff ==
    /\ shops = <<>>
    /\ entries = <<>>
    /\ DelIdle

\* a logged-in session with the shops loaded, showing CRCreator with its
\* project list (one row possibly expanded) or KnowledgeManager with its
\* entries
DelInit ==
    /\ route \in {"/cr-creator", "/knowledge"}
    /\ localStorage = TokenNames[1]
    /\ Session(route)
    /\ shops = AllShops
    /\ selectedShopId \in {NULL} \cup ShopIds
    /\ IF route = "/cr-creator"
       THEN /\ crProjects = AllProjects
            /\ expandedId \in {NULL} \cup ProjectIds
            /\ expandedDetail = (IF expandedId = NULL THEN NULL
                                 ELSE OutputOf(expandedId))
            /\ entries = <<>>
       ELSE /\ crProjects = <<>>
            /\ expandedId = NULL
            /\ expandedDetail = NULL
            /\ entries = AllEntries
    /\ loadingDetail = FALSE
    /\ crError = ""
    /\ generating = FALSE
    /\ crResult = NULL
    /\ gen = NoGen
    /\ detailReqs = <<>>
    /\ crLast = [op |-> "none"]
    /\ DelIdle

delFrame == <<store, route, pc, view, last, chatVars, marketVars, mdVars,
              shVars, rejectedTokens, loadingDetail, crError, generating,
              crResult, gen, detailReqs, crLast>>
delLists == <<shops, selectedShopId, crProjects, expandedId, expandedDetail,
              entries>>

\* useShopStore.deleteShop(id), up to its await
DeleteShop(id) ==
    /\ id \in ListedIds(shops)
    /\ Len(delReqs) < MaxDelReqs
    /\ delReqs' = Append(delReqs, [kind |-> "shop", id |-> id,
                                   expandedId |-> NULL])
    /\ delLast' = [op |-> "deleteShop", id |-> id, sent |-> 1]
    /\ UNCHANGED <<delLists, deleting, localStorage, pendingHref, delFrame>>

\* CRCreator.handleDelete(projectId), up to its await; confirmed is the
\* answer of window.confirm; the button is disabled while deleting === id
HandleDeleteProject(projectId, confirmed) ==
    /\ route = "/cr-creator"
    /\ projectId \in ListedIds(crProjects)
    /\ deleting # projectId
    /\ IF ~confirmed
       THEN UNCHANGED <<deleting, delReqs>>
       ELSE /\ Len(delReqs) < MaxDelReqs
            /\ deleting' = projectId
            /\ delReqs' = Append(delReqs, [kind |-> "project",
                                           id |-> projectId,
                                           expandedId |-> expandedId])
    /\ delLast' = [op |-> "handleDelete", id |-> projectId,
                   confirmed |-> confirmed,
                   sent |-> Len(delReqs') - Len(delReqs)]
    /\ UNCHANGED <<delLists, localStorage, pendingHref, delFrame>>

\* KnowledgeManager.handleDelete(id), up to its await
HandleDeleteEntry(id) ==
    /\ route = "/knowledge"
    /\ id \in ListedIds(entries)
    /\ Len(delReqs) < MaxDelReqs
    /\ delReqs' = Append(delReqs, [kind |-> "entry", id |-> id,
                                   expandedId |-> NULL])
    /\ delLast' = [op |-> "handleDeleteEntry", id |-> id, sent |-> 1]
    /\ UNCHANGED <<delLists, deleting, localStorage, pendingHref, delFrame>>

\* the rest of the handler of request req, the DELETE having resolved
\* (ok) or rejected
Settle(req, ok) ==
    /\ shops' = IF req.kind = "shop"
                THEN SettleDelete(shops, req.id, ok) ELSE shops
    /\ selectedShopId' = IF req.kind = "shop" /\ ok /\ selectedShopId = req.id
                         THEN NULL ELSE selectedShopId
    /\ crProjects' = IF req.kind = "project"
                     THEN SettleDelete(crProjects, req.id, ok) ELSE crProjects
    /\ IF req.kind = "project" /\ ok /\ req.expandedId = req.id
       THEN /\ expandedId' = NULL
            /\ expandedDetail' = NULL
       ELSE UNCHANGED <<expandedId, expandedDetail>>
    /\ deleting' = IF req.kind = "project" THEN NULL ELSE deleting
    /\ entries' = IF req.kind = "entry"
                  THEN SettleDelete(entries, req.id, ok) ELSE entries

\* the server answers 2xx to the DELETE
DeleteResponse(i) ==
    /\ i <= Len(delReqs)
    /\ Settle(delReqs[i], TRUE)
    /\ delReqs' = RemoveAt(delReqs, i)
    /\ delLast' = [op |-> "deleted", kind |-> delReqs[i].kind,
                   id |-> delReqs[i].id]
    /\ UNCHANGED <<localStorage, pendingHref, delFrame>>

\* the DELETE rejects, after the response interceptor
DeleteFailure(i, status) ==
    /\ i <= Len(delReqs)
    /\ LET r == ResponseError([status |-> status,
                               url |-> DeleteUrl(delReqs[i].kind,
                                                 delReqs[i].id)],
                              localStorage, pendingHref)
       IN  /\ localStorage' = r.ls
           /\ pendingHref' = r.href
    /\ Settle(delReqs[i], FALSE)
    /\ delReqs' = RemoveAt(delReqs, i)
    /\ delLast' = [op |-> "deleteFailed", kind |-> delReqs[i].kind,
                   id |-> delReqs[i].id]
    /\ UNCHANGED delFrame

DelNext ==
    \/ \E id \in ShopIds : DeleteShop(id)
    \/ \E id \in ProjectIds, confirmed \in BOOLEAN :
          HandleDeleteProject(id, confirmed)
    \/ \E id \in EntryIds : HandleDeleteEntry(id)
    \/ \E i \in 1..MaxDelReqs : DeleteResponse(i)
    \/ \E i \in 1..MaxDelReqs, status \in Statuses : DeleteFailure(i, status)

----------------------------------------------------------------------------
(* backend/start.sh, run by bash *)
HeadRev == 2        \* revisions up to alembic's head
MaxExit == 2        \* failure statuses of a command are 1..MaxExit

NoCmd     == "none"
Echo      == "echo"
Migrate   == "alembic upgrade head"
ExecServe == "exec uvicorn app.main:app"
ExecFailed == 127   \* status of the shell when exec cannot run the command

\* the script as bash reads it: its commands in order, each "cmd" or
\* "cmd || orElse", and whether `set -e` is in force
StartSh_FailFast ==
    [errexit |-> TRUE,
     lines |-> << [cmd |-> Echo, orElse |-> NoCmd],
                  [cmd |-> Migrate, orElse |-> NoCmd],
                  [cmd |-> Echo, orElse |-> NoCmd],
                  [cmd |-> ExecServe, orElse |-> NoCmd] >>]
StartSh ==
    [errexit |-> FALSE,
     lines |-> << [cmd |-> Echo, orElse |-> NoCmd],
                  [cmd |-> Migrate, orElse |-> Echo],
                  [cmd |-> Echo, orElse |-> NoCmd],
                  [cmd |-> ExecServe, orElse |-> NoCmd] >>]

Running(p) == p.part \in {"left", "right"}

\* the command at position p
CmdAt(script, p) ==
    IF ~Running(p) THEN NoCmd
    ELSE IF p.part = "right" THEN script.lines[p.line].orElse
    ELSE script.lines[p.line].cmd

\* where bash goes after the command at p has returned status
After(script, p, status) ==
    IF status # 0 /\ p.part = "left" /\ script.lines[p.line].orElse # NoCmd
    THEN [line |-> p.line, part |-> "right"]
    ELSE IF status # 0 /\ script.errexit
    THEN [line |-> p.line, part |-> "exited"]
    ELSE IF p.line = Len(script.lines)
    THEN [line |-> p.line, part |-> "exited"]
    ELSE [line |-> p.line + 1, part |-> "left"]

ShOff ==
    /\ shPc = [line |-> 1, part |-> "left"]
    /\ shStatus = 0
    /\ shOut = <<>>
    /\ dbRev = 0

\* the container starts the script; the database is at some revision
ShInit ==
    /\ shPc = [line |-> 1, part |-> "left"]
    /\ shStatus = 0
    /\ shOut = <<>>
    /\ dbRev \in 0..HeadRev

\* no browser takes part
BrowserOff ==
    /\ localStorage = NULL
    /\ store = InitialState
    /\ route = LoginPath
    /\ pendingHref = NULL
    /\ pc = "ready"
    /\ view = "Login"
    /\ last = [op |-> "none"]

shFrame == <<authVars, chatVars, marketVars, mdVars, crVars, delVars,
             rejectedTokens>>

Ran(cmd, status) == [cmd |-> cmd, status |-> status]

\* echo ...: status 0, or 1 when standard output cannot be written
RunEcho(status) ==
    /\ CmdAt(StartSh, shPc) = Echo
    /\ shStatus' = status
    /\ shOut' = Append(shOut, Ran(Echo, status))
    /\ shPc' = After(StartSh, shPc, status)
    /\ UNCHANGED <<dbRev, shFrame>>

\* alembic upgrade head: on success the schema is at head; on failure
\* it is where the failing revision left it
RunMigration(status, rev) ==
    /\ CmdAt(StartSh, shPc) = Migrate
    /\ IF status = 0 THEN rev = HeadRev ELSE (dbRev <= rev /\ rev < HeadRev)
    /\ dbRev' = rev
    /\ shStatus' = status
    /\ shOut' = Append(shOut, Ran(Migrate, status))
    /\ shPc' = After(StartSh, shPc, status)
    /\ UNCHANGED shFrame

\* exec uvicorn ...: the shell is replaced by the server, or exits when
\* the command cannot be run
ExecServer(found) ==
    /\ CmdAt(StartSh, shPc) = ExecServe
    /\ shStatus' = IF found THEN 0 ELSE ExecFailed
    /\ shOut' = Append(shOut, Ran(ExecServe, shStatus'))
    /\ shPc' = [line |-> shPc.line,
                part |-> IF found THEN "replaced" ELSE "exited"]
    /\ UNCHANGED <<dbRev, shFrame>>

ShNext ==
    \/ \E status \in 0..1 : RunEcho(status)
    \/ \E status \in 0..MaxExit, rev \in 0..HeadRev : RunMigration(status, rev)
    \/ \E found \in BOOLEAN : ExecServer(found)

ServerOff == rejectedTokens = {}

ExtraOff == MdOff /\ CrOff /\ DelOff /\ ShOff

----------------------------------------------------------------------------
(* Specifications *)
InitAuth   == AuthInit /\ ChatOff /\ MarketOff /\ ExtraOff /\ ServerOff
InitChat   == ChatInit /\ MarketOff /\ ExtraOff
InitList   == ListInit /\ ChatOff /\ ExtraOff /\ ServerOff
InitDetail == DetailInit /\ ChatOff /\ ExtraOff /\ ServerOff

SpecAuth   == InitAuth /\ [][AuthNext]_vars
SpecChat   == InitChat /\ [][ChatNext]_vars
SpecList   == InitList /\ [][ListNext]_vars
SpecDetail == InitDetail /\ [][DetailNext]_vars

InitMarkdown == /\ Session("/copilot") /\ ChatOff /\ MarketOff /\ MdOff
                /\ CrOff /\ DelOff /\ ShOff /\ ServerOff
InitCR == /\ Session("/cr-creator") /\ ChatOff /\ MarketOff /\ MdOff
          /\ CrInit /\ entries = <<>> /\ DelIdle /\ ShOff /\ ServerOff
InitDelete == /\ DelInit /\ ChatOff /\ MarketOff /\ MdOff /\ ShOff
              /\ ServerOff
InitStart == /\ BrowserOff /\ ChatOff /\ MarketOff /\ MdOff /\ CrOff
             /\ DelOff /\ ShInit /\ ServerOff

SpecMarkdown == InitMarkdown /\ [][MdNext]_vars
SpecExpand   == InitCR /\ [][ExpandNext]_vars
SpecGenerate == InitCR /\ [][GenerateNext]_vars
SpecDelete   == InitDelete /\ [][DelNext]_vars
SpecStart    == InitStart /\ [][ShNext]_vars

----------------------------------------------------------------------------
(* Claims settled under SpecAuth *)

\* C1: the session round-trips through local storage: right after
\* setAuth(user, t) the key holds t, and a reload followed by hydrate()
\* gives token = t and isAuthenticated; right after logout() the key is
\* absent, and a reload followed by hydrate() leaves the store logged out.
C1_RoundTrip ==
    /\ last.op = "setAuth" => localStorage = last.token
    /\ last.op = "logout" => localStorage = NULL
    /\ (last.op = "reload" /\ last.after.op # "none") => store = InitialState
    /\ (last.op = "hydrate" /\ last.after.op = "setAuth") =>
          /\ store.token = last.after.token
          /\ store.isAuthenticated
    /\ (last.op = "hydrate" /\ last.after.op = "logout") =>
          /\ store.token = NULL
          /\ ~store.isAuthenticated

C1_Witness ==
    /\ last.op = "hydrate"
    /\ last.after.op = "setAuth"
    /\ store.token = last.after.token
    /\ store.isAuthenticated

\* C2: a protected page is on screen only while isAuthenticated is true,
\* and at a protected path with isAuthenticated false and no restore in
\* progress the guard renders the redirect to /login, not its children.
C2_ProtectedOnlyWhenAuthenticated ==
    /\ view \in ProtectedPages => store.isAuthenticated
    /\ (route \in ProtectedPaths /\ ~store.isAuthenticated /\ ~isHydrating(store))
          => view = "Navigate"

C2_Witness ==
    /\ route \in ProtectedPaths
    /\ ~store.isAuthenticated
    /\ last.op = "reload"
    /\ last.after.op = "logout"
    /\ view = "Navigate"

\* C5: a request sent through the api client carries Authorization:
\* Bearer t for the t stored under access_token at that moment; with the
\* key absent the request is passed on unchanged.
C5_RequestCarriesStoredToken ==
    last.op = "request" =>
        /\ localStorage # NULL =>
              /\ last.out.Authorization = <<"Bearer", localStorage>>
              /\ last.out.url = last.in.url
        /\ localStorage = NULL => last.out = last.in

C5_Witness ==
    /\ last.op = "request"
    /\ localStorage \in Tokens
    /\ last.in.Authorization # <<"Bearer", localStorage>>
    /\ last.out.Authorization = <<"Bearer", localStorage>>

\* C6: a 401 for a URL not ending in /auth/me removes access_token and
\* sends the browser to /login; a 401 for a URL ending in /auth/me leaves
\* local storage and location alone; every error is rejected to the caller.
C6_Handle401 ==
    last.op = "response" =>
        /\ last.result = "rejected"
        /\ (last.error.status = 401 /\ ~EndsWith(last.error.url, AuthMe)) =>
              /\ localStorage = NULL
              /\ pendingHref = "/login"
        /\ (last.error.status = 401 /\ EndsWith(last.error.url, AuthMe)) =>
              /\ localStorage = last.lsBefore
              /\ pendingHref = last.hrefBefore

C6_Witness ==
    /\ last.op = "response"
    /\ last.error.status = 401
    /\ last.error.url = UrlShops
    /\ last.lsBefore \in Tokens
    /\ localStorage = NULL
    /\ pendingHref = "/login"

\* C7: while the session is being restored (a token is stored, hydrate()
\* has not run yet) the guard shows the spinner and not the redirect.
C7_NoRedirectWhileRestoring ==
    (pc = "mounted" /\ localStorage # NULL /\ route \in ProtectedPaths) =>
        /\ view = "spinner"
        /\ view # "Navigate"

\* C8 as stated: whenever isAuthenticated is true the store token is
\* non-null and equals access_token in local storage.
C8_AuthenticatedMatchesStorage ==
    store.isAuthenticated =>
        /\ store.token # NULL
        /\ localStorage = store.token

\* C8 amended: the same, except between a 401 handled by the api client
\* and the page load to /login that it started.
C8_AuthenticatedMatchesStorageUnlessRedirecting ==
    (store.isAuthenticated /\ pendingHref = NULL) =>
        /\ store.token # NULL
        /\ localStorage = store.token

C8_Witness ==
    /\ store.isAuthenticated
    /\ pendingHref = NULL
    /\ last.op = "response"
    /\ last.error.status = 401
    /\ localStorage = store.token

----------------------------------------------------------------------------
(* Claims settled under SpecChat *)

\* C3: when the streaming request fails (before or after part of the
\* reply was shown) exactly one non-streaming POST /copilot/chat is issued
\* with the same message and history, and the conversation then is the
\* earlier messages, the user's message and one assistant message holding
\* the reply, or the fixed error text when that call fails as well.
C3_FallbackOnce ==
    /\ last.op \in {"fallback", "failedOver"} =>
          /\ Len(send.posts) = 1
          /\ send.posts[1].url = UrlChat
          /\ send.posts[1].data.message = send.streamReq.data.message
          /\ send.posts[1].data.history = send.streamReq.data.history
    /\ last.op = "failedOver" =>
          /\ Len(messages) = Len(send.messages) + 2
          /\ SubSeq(messages, 1, Len(send.messages)) = send.messages
          /\ messages[Len(messages) - 1] = [role |-> "user", content |-> send.input]
          /\ messages[Len(messages)] =
                [role |-> "assistant",
                 content |-> IF last.ok THEN last.content ELSE ErrorText]

C3_Witness ==
    /\ last.op = "failedOver"
    /\ last.why = "read threw"
    /\ last.partial # <<>>
    /\ last.ok
    /\ messages[Len(messages)].content \in Replies
    /\ Len(send.posts) = 1

\* C4: when the stream ends normally the assistant message holds the
\* concatenation, in sending order, of the content of all text events the
\* server sent, however the bytes were divided into read chunks.
C4_StreamedTextComplete ==
    last.op = "streamDone" =>
        messages[Len(messages)] =
            [role |-> "assistant", content |-> TextOf(send.events)]

----------------------------------------------------------------------------
(* Claims settled under SpecList and SpecDetail *)

\* C9: whenever tab, region, product sort or keywords change, page is
\* reset to 1 and every list request sent on that change asks for page 1.
C9_FilterChangeAsksPageOne ==
    [][ <<tab', region', productSort', keywords'>>
           # <<tab, region, productSort, keywords>>
        => /\ page' = 1
           /\ \A i \in 1..Len(sent') : sent'[i].page = 1 ]_vars

\* C10: while the modal shows product P and no video request is pending,
\* every listed video came from a request for P's videos; while the modal
\* is closed, videos is empty and videosTotal is 0.
C10_VideosBelongToShownProduct ==
    /\ (selectedProduct # NULL /\ videoReqs = <<>>) =>
          \A i \in 1..Len(videos) : videos[i].product = selectedProduct
    /\ selectedProduct = NULL =>
          /\ videos = <<>>
          /\ videosTotal = 0

----------------------------------------------------------------------------
(* Claims settled under SpecMarkdown *)

\* the four counts of the function, taken on a text
TokensClosed(text) ==
    /\ BoldCount(text) % 2 = 0
    /\ ItalicCount(text) % 2 = 0
    /\ CodeBlockCount(text) % 2 = 0
    /\ InlineCodeCount(text) % 2 = 0

\* C11: while a message streams, what the render shows starts with the
\* message text, holds an even number of ** tokens, of lone *, of triple-backtick
\* fences and of lone backticks, and sanitizing it again changes nothing.
C11_SanitizedTextIsClosed ==
    mdStreaming =>
        /\ StartsWith(displayContent, mdText)
        /\ TokensClosed(displayContent)
        /\ sanitizePartialMarkdown(displayContent) = displayContent

----------------------------------------------------------------------------
(* Claims settled under SpecExpand and SpecGenerate *)

\* the ai_output of projectId's entry in the list, NULL when it has none
EntryOutput(projects, projectId) ==
    IF \E i \in 1..Len(projects) :
          projects[i].id = projectId /\ projects[i].ai_output # NULL
    THEN OutputOf(projectId)
    ELSE NULL

\* C12: a click on the expanded project sends nothing and clears
\* expandedId and expandedDetail; a click on another project whose list
\* entry has ai_output sends nothing and shows that ai_output; the detail
\* request is sent only for a project that was not expanded and whose list
\* entry has no ai_output, and then it is one request for that project.
C12_ExpandUsesListedOutput ==
    crLast.op = "toggleExpand" =>
        LET wasExpanded == crLast.expandedId = crLast.id
            listed == EntryOutput(crLast.projects, crLast.id)
        IN  /\ wasExpanded =>
                 crLast.sent = 0 /\ expandedId = NULL /\ expandedDetail = NULL
            /\ (~wasExpanded /\ listed # NULL) =>
                 /\ crLast.sent = 0
                 /\ expandedId = crLast.id
                 /\ expandedDetail = listed
            /\ crLast.sent # 0 =>
                 /\ crLast.sent = 1
                 /\ ~wasExpanded
                 /\ listed = NULL
                 /\ detailReqs[Len(detailReqs)] = crLast.id

\* a project with ai_output in the list was expanded while the detail of
\* another one was still being fetched
C12_Witness ==
    /\ crLast.op = "toggleExpand"
    /\ crLast.expandedId # crLast.id
    /\ crLast.sent = 0
    /\ expandedId = crLast.id
    /\ expandedDetail = OutputOf(crLast.id)
    /\ detailReqs # <<>>

\* C15: a submission sends at most one POST /cr/generate; with no shop
\* selected it sends none, sets the select-a-shop error and generating
\* stays false; with a shop selected it sends exactly one, also once the
\* call has resolved or failed, and generating is false when the handler
\* has ended.
C15_OnePostPerSubmission ==
    /\ gen.posts <= 1
    /\ gen.pc = "idle" => ~generating
    /\ (crLast.op = "generate" /\ crLast.shop = NULL) =>
          /\ crLast.sent = 0
          /\ gen.posts = 0
          /\ crError = SelectShopError
          /\ ~generating
    /\ (crLast.op = "generate" /\ crLast.shop # NULL) =>
          crLast.sent = 1 /\ gen.posts = 1
    /\ crLast.op \in {"generateResponse", "generateDone", "generateFailed"} =>
          gen.posts = 1

\* a submission with a shop selected has failed
C15_Witness ==
    /\ crLast.op = "generateFailed"
    /\ gen.shop # NULL
    /\ gen.posts = 1
    /\ crError = GenerateFailed
    /\ ~generating

----------------------------------------------------------------------------
(* Claims settled under SpecDelete *)

\* C14: a step changes the shops, selectedShopId, the projects or the
\* entries only when it is the success of a DELETE, and then it removes
\* just the deleted item (and deselects a deleted shop); a failed DELETE
\* changes none of them; a declined confirm dialog sends no DELETE.
C14_RemovedOnlyWhenDeleted ==
    [][/\ delLast'.op # "deleted" =>
            <<shops', selectedShopId', crProjects', entries'>>
                = <<shops, selectedShopId, crProjects, entries>>
       /\ delLast'.op = "deleted" =>
            LET k == delLast'.kind
                id == delLast'.id
            IN  /\ shops' = IF k = "shop" THEN Without(shops, id) ELSE shops
                /\ selectedShopId' \in {selectedShopId, NULL}
                /\ selectedShopId' # selectedShopId =>
                      k = "shop" /\ selectedShopId = id
                /\ crProjects' = IF k = "project" THEN Without(crProjects, id)
                                 ELSE crProjects
                /\ entries' = IF k = "entry" THEN Without(entries, id)
                              ELSE entries
       /\ (delLast'.op = "handleDelete" /\ ~delLast'.confirmed) =>
            delReqs' = delReqs
      ]_vars

\* the DELETE of the selected shop has failed
C14_Witness ==
    /\ delLast.op = "deleteFailed"
    /\ delLast.kind = "shop"
    /\ selectedShopId = delLast.id
    /\ delLast.id \in ListedIds(shops)

----------------------------------------------------------------------------
(* Claims settled under SpecStart *)

Attempted(cmd) == \E i \in 1..Len(shOut) : shOut[i].cmd = cmd

\* C13: the script ends only at its exec step, so the server start is
\* reached whether the migration succeeded or failed, and whenever the
\* exec step has run the migration was attempted before it.
C13_ServerStartAlwaysReached ==
    /\ ~Running(shPc) => Attempted(ExecServe)
    /\ \A i \in 1..Len(shOut) :
          shOut[i].cmd = ExecServe =>
              \E j \in 1..(i - 1) : shOut[j].cmd = Migrate

\* the server runs after a migration that failed
C13_Witness ==
    /\ shPc.part = "replaced"
    /\ \E j \in 1..Len(shOut) :
          shOut[j].cmd = Migrate /\ shOut[j].status # 0

----------------------------------------------------------------------------
(* Claim settled under SpecChat with a rejected token *)

\* C16: when a send made with a token the server rejects has ended,
\* access_token is gone from local storage and the page load to /login
\* is pending.
C16_RejectedTokenEndsInLogin ==
    (sends > 0 /\ send.pc = "idle" /\ Rejects(send.streamReq.Authorization)) =>
        /\ localStorage = NULL
        /\ pendingHref = LoginPath

\* the stream request was answered 401, the fallback POST too
C16_Witness ==
    /\ sends > 0
    /\ send.pc = "idle"
    /\ Rejects(send.streamReq.Authorization)
    /\ last.op = "failedOver"
    /\ last.why = "not ok"
    /\ localStorage = NULL

=============================================================================
